---- MODULE Spec2Model ----
(***************************************************************************)
(* GDAXOrderBook (gdax-orderbook.hpp): a constructing/owning thread, the   *)
(* receiveUpdates thread (WebSocket transport, enqueues payloads) and the  *)
(* processUpdates thread (dequeues, decodes, applies to bids / asks).      *)
(***************************************************************************)
EXTENDS Integers, Sequences, FiniteSets, TLC

\* ------------------------------------------------------------------ bounds
\* What the feed delivers in all: every payload counts for its snapshot
\* entries plus its l2update changes, and for one when it has none.
MaxCost == 2

\* ------------------------------------------------- decimal strings, stod
PriceStrs == {"1", "1.0", "2"}
SizeStrs == {"0", "1", "2"}
SideStrs == {"buy", "sell"}

\* std::stod: "1" and "1.0" are the same double; a string with no leading
\* number makes it throw std::invalid_argument.
stodThrows(s) == s \notin {"0", "1", "1.0", "2"}
stod(s) ==
    CASE s = "0" -> 0
      [] s = "1" -> 1
      [] s = "1.0" -> 1
      [] s = "2" -> 2

\* ---------------------------------------------------------- feed payloads
RECURSIVE SeqsUpTo(_, _)
SeqsUpTo(S, n) ==
    IF n = 0 THEN {<<>>}
    ELSE LET shorter == SeqsUpTo(S, n - 1)
         IN  shorter \cup {Append(q, x) : q \in {r \in shorter : Len(r) = n - 1}, x \in S}

Entries == {<<p, s>> : p \in PriceStrs, s \in SizeStrs}
Changes == {<<d, p, s>> : d \in SideStrs, p \in PriceStrs, s \in SizeStrs}

Payload(decodable, has, type, b, a, c) ==
    [decodable |-> decodable, has |-> has, type |-> type,
     bids |-> b, asks |-> a, changes |-> c]

Snapshots(n) ==
    {Payload(TRUE, {"type", "bids", "asks"}, "snapshot", ba[1], ba[2], <<>>) :
        ba \in {x \in SeqsUpTo(Entries, n) \X SeqsUpTo(Entries, n) :
                    Len(x[1]) + Len(x[2]) <= n}}

L2Updates(n) ==
    {Payload(TRUE, {"type", "changes"}, "l2update", <<>>, <<>>, c) :
        c \in SeqsUpTo(Changes, n)}

OtherMsgs == {Payload(TRUE, {"type"}, "heartbeat", <<>>, <<>>, <<>>)}

\* an l2update whose change names neither "buy" nor "sell"
ForeignSideMsgs ==
    {Payload(TRUE, {"type", "changes"}, "l2update", <<>>, <<>>, <<<<"hold", "1", "1">>>>)}

MalformedMsgs ==
    { Payload(FALSE, {}, "", <<>>, <<>>, <<>>),
      Payload(TRUE, {}, "", <<>>, <<>>, <<>>),
      Payload(TRUE, {"type", "bids"}, "snapshot", <<<<"1", "1">>>>, <<>>, <<>>),
      Payload(TRUE, {"type"}, "l2update", <<>>, <<>>, <<>>),
      Payload(TRUE, {"type", "changes"}, "l2update", <<>>, <<>>, <<<<"sell", "1", "x">>>>) }

WellFormed(m) == m \notin MalformedMsgs

NoUpdate == Payload(FALSE, {}, "none", <<>>, <<>>, <<>>)

\* a reader thread has not looked at the book
NotSeen == [looked |-> FALSE, bids |-> <<>>, asks |-> <<>>]

Cost(msg) ==
    LET n == Len(msg.bids) + Len(msg.asks) + Len(msg.changes)
    IN  IF n = 0 THEN 1 ELSE n

RECURSIVE TotalCost(_)
TotalCost(msgs) == IF msgs = <<>> THEN 0 ELSE Cost(Head(msgs)) + TotalCost(Tail(msgs))

FeedMsgs ==
    Snapshots(MaxCost) \cup L2Updates(MaxCost) \cup OtherMsgs \cup ForeignSideMsgs
        \cup MalformedMsgs

\* the payloads of the feed by what they count for
FeedByCost == [c \in 1..MaxCost |-> {m \in FeedMsgs : Cost(m) <= c}]

\* the feed of a book with a single price level
OneLevel(msg) ==
    /\ \A i \in 1..Len(msg.bids) : msg.bids[i][1] = "1"
    /\ \A i \in 1..Len(msg.asks) : msg.asks[i][1] = "1"
    /\ \A i \in 1..Len(msg.changes) : msg.changes[i][2] = "1"

OneLevelByCost == [c \in 1..MaxCost |-> {m \in FeedByCost[c] : OneLevel(m)}]

\* ----------------------------------------- cds::container::SkipListMap
EmptyMap == [k \in {} |-> 0]

\* (variant: insert that starts the map over from the entry it is given)
insertReplacing(map, price, size) == [k \in {price} |-> size]

\* map_t::insert(key, val): inserts only when the key is absent.
insert(map, price, size) ==
    IF price \in DOMAIN map THEN map
    ELSE [k \in DOMAIN map \cup {price} |-> IF k = price THEN size ELSE map[k]]

\* map_t::erase(key): no effect when the key is absent.
erase(map, price) == [k \in DOMAIN map \ {price} |-> map[k]]

\* map_t::update(key, func), first half: an absent key is linked into the
\* list with a default-constructed value before func runs.
updateLink(map, price) ==
    IF price \in DOMAIN map THEN map
    ELSE [k \in DOMAIN map \cup {price} |-> IF k = price THEN 0 ELSE map[k]]

\* the functor passed to map_t::update: pair.second = stod(size).
updateFunctor(map, price, size) == [map EXCEPT ![price] = size]

\* ------------------------------------------------------------------ state
VARIABLES
    bids, asks,             \* the two public SkipListMaps, price -> size
    m_queue,                \* RWQueue of payloads, each tagged with its receipt number
    m_stopUpdating,         \* plain bool, default member initializer "false"
    m_bookInitialized,      \* plain bool, default member initializer "false"
    clientStopped,          \* m_client.stop() has been called
    cpc,                    \* position of the constructing / destroying thread
    rpc,                    \* position of the receiveUpdates thread
    ppc,                    \* position of the processUpdates thread
    update, li, j,          \* processUpdates locals: payload, list index, entry index
    received,               \* history: payloads handed to the message handler
    applied,                \* history: receipt numbers dequeued by processUpdates
    snapshotsApplied,       \* history: snapshots whose two loops completed
    crashed,                \* the process was terminated (std::terminate, abort, fault)
    uaf,                    \* a worker ran on the object after its teardown
    seen,                   \* what a reader thread last found in bids and asks
    stoppedAt               \* history: payloads dequeued when m_stopUpdating was set

vars == <<bids, asks, m_queue, m_stopUpdating, m_bookInitialized, clientStopped,
          cpc, rpc, ppc, update, li, j, received, applied, snapshotsApplied,
          crashed, uaf, seen, stoppedAt>>

store == <<bids, asks>>
flags == <<m_stopUpdating, m_bookInitialized, clientStopped>>
locals == <<update, li, j>>
history == <<received, applied, snapshotsApplied>>

\* Members are initialized in declaration order: bids, asks, the two threads,
\* m_queue, m_client, m_stopUpdating, m_bookInitialized; then the body runs.
QueueConstructed == cpc \notin {"spawn_receive", "spawn_process", "init_queue"}
ClientConstructed == QueueConstructed /\ cpc # "init_client"
StopInitialized == ClientConstructed /\ cpc # "init_stop"
BookInitializedInitialized == StopInitialized /\ cpc # "init_flag"
Constructed == cpc \in {"returned", "dtor_flag", "dtor_join", "destroyed"}
TornDown == cpc = "destroyed"
Live == ~crashed /\ ~TornDown

Init ==
    /\ bids = EmptyMap
    /\ asks = EmptyMap
    /\ m_queue = <<>>
    /\ m_stopUpdating = FALSE
    /\ m_bookInitialized = FALSE
    /\ clientStopped = FALSE
    /\ cpc = "spawn_receive"
    /\ rpc = "unstarted"
    /\ ppc = "unstarted"
    /\ update = NoUpdate
    /\ li = 1
    /\ j = 1
    /\ received = <<>>
    /\ applied = <<>>
    /\ snapshotsApplied = 0
    /\ crashed = FALSE
    /\ uaf = FALSE
    /\ seen = NotSeen
    /\ stoppedAt = 0

\* ------------------------------------------- constructor and destructor
StartReceiveThread ==
    /\ ~crashed /\ cpc = "spawn_receive"
    /\ cpc' = "spawn_process"
    /\ rpc' = "setup"
    /\ UNCHANGED <<seen, stoppedAt, store, m_queue, flags, ppc, locals, history, crashed, uaf>>

StartProcessThread ==
    /\ ~crashed /\ cpc = "spawn_process"
    /\ cpc' = "init_queue"
    /\ ppc' = "check"
    /\ UNCHANGED <<seen, stoppedAt, store, m_queue, flags, rpc, locals, history, crashed, uaf>>

ConstructQueue ==
    /\ ~crashed /\ cpc = "init_queue"
    /\ cpc' = "init_client"
    /\ m_queue' = <<>>
    /\ UNCHANGED <<seen, stoppedAt, store, flags, rpc, ppc, locals, history, crashed, uaf>>

ConstructClient ==
    /\ ~crashed /\ cpc = "init_client"
    /\ cpc' = "init_stop"
    /\ UNCHANGED <<seen, stoppedAt, store, m_queue, flags, rpc, ppc, locals, history, crashed, uaf>>

InitStopUpdating ==
    /\ ~crashed /\ cpc = "init_stop"
    /\ cpc' = "init_flag"
    /\ m_stopUpdating' = FALSE
    /\ UNCHANGED <<seen, stoppedAt, store, m_queue, m_bookInitialized, clientStopped, rpc, ppc,
                   locals, history, crashed, uaf>>

\* the last member initializer, then attachThread and the two detach() calls
InitBookInitialized ==
    /\ ~crashed /\ cpc = "init_flag"
    /\ cpc' = "wait"
    /\ m_bookInitialized' = FALSE
    /\ UNCHANGED <<seen, stoppedAt, store, m_queue, m_stopUpdating, clientStopped, rpc, ppc,
                   locals, history, crashed, uaf>>

\* while ( ! m_bookInitialized ) { continue; } sees the flag set
ConstructorReturn ==
    /\ ~crashed /\ cpc = "wait"
    /\ m_bookInitialized
    /\ cpc' = "returned"
    /\ UNCHANGED <<seen, stoppedAt, store, m_queue, flags, rpc, ppc, locals, history, crashed, uaf>>

\* the flag is a plain bool written by another thread: a build may read it
\* once and spin on the value it read
ConstructorSpin ==
    /\ ~crashed /\ cpc = "wait"
    /\ ~m_bookInitialized
    /\ cpc' = "spin"
    /\ UNCHANGED <<seen, stoppedAt, store, m_queue, flags, rpc, ppc, locals, history, crashed, uaf>>

DestructorStopClient ==
    /\ ~crashed /\ cpc = "returned"
    /\ cpc' = "dtor_flag"
    /\ clientStopped' = TRUE
    /\ UNCHANGED <<seen, stoppedAt, store, m_queue, m_stopUpdating, m_bookInitialized, rpc, ppc,
                   locals, history, crashed, uaf>>

DestructorSetStop ==
    /\ ~crashed /\ cpc = "dtor_flag"
    /\ cpc' = "dtor_join"
    /\ m_stopUpdating' = TRUE
    /\ stoppedAt' = Len(applied)
    /\ UNCHANGED <<seen, store, m_queue, m_bookInitialized, clientStopped, rpc, ppc,
                   locals, history, crashed, uaf>>

\* std::thread::joinable(): true for a started thread until detach() (or
\* join()) is called on it, whether or not the thread is still running. The
\* constructor body detaches both threads before it waits.
Detached == cpc \in {"wait", "spin", "returned", "dtor_flag", "dtor_join", "destroyed"}
joinable(pc) == pc # "unstarted" /\ ~Detached

\* the wait loop of the destructor, then the members are destroyed
DestructorReturn ==
    /\ ~crashed /\ cpc = "dtor_join"
    /\ ~(joinable(ppc) /\ joinable(rpc))
    /\ cpc' = "destroyed"
    /\ UNCHANGED <<seen, stoppedAt, store, m_queue, flags, rpc, ppc, locals, history, crashed, uaf>>

\* --------------------------------------------------- receiveUpdates thread
\* lines 113-184: configure m_client, install the handlers, connect. Before
\* m_client is constructed this works on raw storage: the process faults or
\* the call throws and the thread ends.
receiveUpdatesSetup ==
    /\ Live /\ rpc = "setup"
    /\ IF ClientConstructed
         THEN rpc' = "run" /\ crashed' = crashed
         ELSE \/ crashed' = TRUE /\ rpc' = rpc
              \/ crashed' = crashed /\ rpc' = "done"
    /\ UNCHANGED <<seen, stoppedAt, store, m_queue, flags, cpc, ppc, locals, history, uaf>>

\* (variant: a queue that hands out the newest payload first)
enqueueFront(queue, item) == <<item>> \o queue

\* the message handler: this->m_queue.enqueue(msg->get_payload())
enqueue(queue, item) == Append(queue, item)

OnMessage(msg) ==
    /\ m_queue' = enqueue(m_queue, [seq |-> Len(received) + 1, msg |-> msg])
    /\ received' = Append(received, msg)
    /\ UNCHANGED <<seen, stoppedAt, store, flags, cpc, rpc, ppc, locals, applied, snapshotsApplied,
                   crashed, uaf>>

\* m_client.run() dispatches one inbound message of the feed to the handler
receiveUpdatesRun(feed) ==
    /\ Live /\ rpc = "run"
    /\ ~clientStopped
    /\ TotalCost(received) < MaxCost
    /\ \E msg \in feed[MaxCost - TotalCost(received)] : OnMessage(msg)

\* m_client.run() returns after m_client.stop()
receiveUpdatesStopped ==
    /\ Live /\ rpc = "run"
    /\ clientStopped
    /\ rpc' = "done"
    /\ UNCHANGED <<seen, stoppedAt, store, m_queue, flags, cpc, ppc, locals, history, crashed, uaf>>

\* connect / run fail or the connection closes: the exception is caught and
\* logged, the thread ends, nothing reconnects
receiveUpdatesFailed ==
    /\ Live /\ rpc = "run"
    /\ ~clientStopped
    /\ rpc' = "done"
    /\ UNCHANGED <<seen, stoppedAt, store, m_queue, flags, cpc, ppc, locals, history, crashed, uaf>>

\* --------------------------------------------------- processUpdates thread
\* (variant: the loop never looks at m_stopUpdating)
processUpdatesCheckStopNever ==
    /\ Live /\ ppc = "check"
    /\ ppc' = "dequeue"
    /\ UNCHANGED <<seen, stoppedAt, store, m_queue, flags, cpc, rpc, locals, history,
                   crashed, uaf>>

\* if ( m_stopUpdating ) return;   (an uninitialized bool reads as either value)
processUpdatesCheckStop ==
    /\ Live /\ ppc = "check"
    /\ \E stop \in (IF StopInitialized THEN {m_stopUpdating} ELSE BOOLEAN) :
          ppc' = IF stop THEN "done" ELSE "dequeue"
    /\ UNCHANGED <<seen, stoppedAt, store, m_queue, flags, cpc, rpc, locals, history, crashed, uaf>>

List(msg, l) == IF l = 1 THEN msg.bids ELSE msg.asks
ListName(l) == IF l = 1 THEN "bids" ELSE "asks"

\* position of the two nested snapshot loops after skipping exhausted lists;
\* list index 3 means both loops are over
RECURSIVE LoopPos(_, _, _)
LoopPos(msg, l, e) ==
    IF l <= 2 /\ ListName(l) \in msg.has /\ e > Len(List(msg, l))
    THEN LoopPos(msg, l + 1, 1)
    ELSE <<l, e>>

\* (variant: whatever is no l2update is taken for a snapshot)
DispatchNoSnapshotTest(msg) ==
    IF ~msg.decodable \/ "type" \notin msg.has THEN "undefined"
    ELSE IF msg.type = "l2update"
         THEN IF "changes" \notin msg.has THEN "undefined"
              ELSE IF Len(msg.changes) = 0 THEN "check" ELSE "l2update"
    ELSE "snapshot"

\* where processUpdates goes after doc.Parse and the type dispatch
Dispatch(msg) ==
    IF ~msg.decodable \/ "type" \notin msg.has THEN "undefined"
    ELSE IF msg.type = "snapshot" THEN "snapshot"
    ELSE IF msg.type = "l2update"
         THEN IF "changes" \notin msg.has THEN "undefined"
              ELSE IF Len(msg.changes) = 0 THEN "check" ELSE "l2update"
    ELSE "check"

\* bool queueEmpty = ! m_queue.dequeue(update); if (queueEmpty) continue;
\* then doc.Parse and doc["type"]
processUpdatesDequeue ==
    /\ Live /\ ppc = "dequeue"
    /\ IF ~QueueConstructed
         THEN \* dequeue on raw storage: a fault, or it reports "empty"
              /\ \/ crashed' = TRUE /\ ppc' = ppc
                 \/ crashed' = crashed /\ ppc' = "check"
              /\ UNCHANGED <<m_queue, locals, applied>>
         ELSE IF m_queue = <<>>
         THEN ppc' = "check" /\ UNCHANGED <<m_queue, locals, applied, crashed>>
         ELSE LET item == Head(m_queue)
                  to == Dispatch(item.msg)
              IN  /\ m_queue' = Tail(m_queue)
                  /\ applied' = Append(applied, item.seq)
                  /\ update' = IF to \in {"snapshot", "l2update"} THEN item.msg ELSE NoUpdate
                  /\ li' = IF to = "snapshot" THEN LoopPos(item.msg, 1, 1)[1] ELSE 1
                  /\ j' = IF to = "snapshot" THEN LoopPos(item.msg, 1, 1)[2] ELSE 1
                  /\ IF to = "undefined"
                       THEN \* rapidjson assertion / access through a null value
                            \/ crashed' = TRUE /\ ppc' = ppc
                            \/ crashed' = crashed /\ ppc' = "check"
                       ELSE ppc' = to /\ crashed' = crashed
    /\ UNCHANGED <<seen, stoppedAt, store, flags, cpc, rpc, received, snapshotsApplied, uaf>>

\* i.second->insert(price, size) for entry j of the current list
processUpdatesSnapshotEntry ==
    /\ Live /\ ppc = "snapshot"
    /\ li <= 2 /\ ListName(li) \in update.has
    /\ LET entry == List(update, li)[j]
           next == LoopPos(update, li, j + 1)
       IN  IF stodThrows(entry[1]) \/ stodThrows(entry[2])
           THEN crashed' = TRUE /\ UNCHANGED <<store, li, j>>
           ELSE /\ crashed' = crashed
                /\ bids' = IF li = 1 THEN insert(bids, stod(entry[1]), stod(entry[2])) ELSE bids
                /\ asks' = IF li = 2 THEN insert(asks, stod(entry[1]), stod(entry[2])) ELSE asks
                /\ li' = next[1]
                /\ j' = next[2]
    /\ UNCHANGED <<seen, stoppedAt, m_queue, flags, cpc, rpc, ppc, update, history, uaf>>

\* doc[i.first] names a member the payload does not have
processUpdatesSnapshotMissing ==
    /\ Live /\ ppc = "snapshot"
    /\ li <= 2 /\ ListName(li) \notin update.has
    /\ \/ crashed' = TRUE /\ UNCHANGED <<li, j>>
       \/ /\ crashed' = crashed
          /\ li' = LoopPos(update, li + 1, 1)[1]
          /\ j' = LoopPos(update, li + 1, 1)[2]
    /\ UNCHANGED <<seen, stoppedAt, store, m_queue, flags, cpc, rpc, ppc, update, history, uaf>>

\* (variant: the flag is raised while entries are still to be inserted)
processUpdatesSnapshotDoneEarly ==
    /\ Live /\ ppc = "snapshot"
    /\ m_bookInitialized' = TRUE
    /\ snapshotsApplied' = snapshotsApplied + 1
    /\ ppc' = "check"
    /\ update' = NoUpdate /\ li' = 1 /\ j' = 1
    /\ UNCHANGED <<seen, stoppedAt, store, m_queue, m_stopUpdating, clientStopped, cpc, rpc,
                   received, applied, crashed, uaf>>

\* m_bookInitialized = true; after both loops
processUpdatesSnapshotDone ==
    /\ Live /\ ppc = "snapshot"
    /\ li = 3
    /\ m_bookInitialized' = TRUE
    /\ snapshotsApplied' = snapshotsApplied + 1
    /\ ppc' = "check"
    /\ update' = NoUpdate /\ li' = 1 /\ j' = 1
    /\ UNCHANGED <<seen, stoppedAt, store, m_queue, m_stopUpdating, clientStopped, cpc, rpc,
                   received, applied, crashed, uaf>>

\* (variant: the two sides exchanged)
toBidsSwapped(buyOrSell) == buyOrSell = "sell"

\* map_t * map = buyOrSell=="buy" ? &bids : &asks;
toBids(buyOrSell) == buyOrSell = "buy"

\* (variant: a zero size is stored like any other)
isRemovalNever(size) == FALSE

\* if (stod(size) == 0)
isRemoval(size) == stod(size) = 0

\* end of one iteration of the changes loop
NextChange ==
    IF j + 1 > Len(update.changes)
    THEN ppc' = "check" /\ update' = NoUpdate /\ j' = 1
    ELSE ppc' = "l2update" /\ update' = update /\ j' = j + 1

\* (variant: changes are dropped until a snapshot has been applied)
processUpdatesChangeGated ==
    /\ Live /\ ppc = "l2update"
    /\ IF m_bookInitialized
       THEN LET change == update.changes[j]
                map == IF toBids(change[1]) THEN bids ELSE asks
                price == stod(change[2])
                new == IF isRemoval(change[3]) THEN erase(map, price)
                       ELSE updateFunctor(updateLink(map, price), price, stod(change[3]))
            IN  /\ bids' = IF toBids(change[1]) THEN new ELSE bids
                /\ asks' = IF toBids(change[1]) THEN asks ELSE new
       ELSE UNCHANGED store
    /\ NextChange
    /\ UNCHANGED <<seen, stoppedAt, m_queue, flags, cpc, rpc, li, history, crashed, uaf>>

\* one change: erase, or map->update up to the point where the key is in the map
processUpdatesChange ==
    /\ Live /\ ppc = "l2update"
    /\ LET change == update.changes[j]
           buyOrSell == change[1]
           price == change[2]
           size == change[3]
           map == IF toBids(buyOrSell) THEN bids ELSE asks
       IN  IF stodThrows(size) \/ stodThrows(price)
           THEN crashed' = TRUE /\ UNCHANGED <<store, ppc, update, j>>
           ELSE /\ crashed' = crashed
                /\ LET new == IF isRemoval(size) THEN erase(map, stod(price))
                              ELSE IF stod(price) \in DOMAIN map
                                   THEN updateFunctor(map, stod(price), stod(size))
                                   ELSE updateLink(map, stod(price))
                   IN  /\ bids' = IF toBids(buyOrSell) THEN new ELSE bids
                       /\ asks' = IF toBids(buyOrSell) THEN asks ELSE new
                /\ IF ~isRemoval(size) /\ stod(price) \notin DOMAIN map
                   THEN ppc' = "functor" /\ UNCHANGED <<update, j>>
                   ELSE NextChange
    /\ UNCHANGED <<seen, stoppedAt, m_queue, flags, cpc, rpc, li, history, uaf>>

\* the functor of map->update runs on the node it has just linked
processUpdatesFunctor ==
    /\ Live /\ ppc = "functor"
    /\ LET change == update.changes[j]
           price == stod(change[2])
           size == stod(change[3])
       IN  /\ bids' = IF toBids(change[1]) THEN updateFunctor(bids, price, size) ELSE bids
           /\ asks' = IF toBids(change[1]) THEN asks ELSE updateFunctor(asks, price, size)
    /\ NextChange
    /\ UNCHANGED <<seen, stoppedAt, m_queue, flags, cpc, rpc, li, history, crashed, uaf>>

\* ------------------------------------------------ workers after teardown
\* The destructor has returned and the members are gone, but a detached
\* worker is still running: its next access is to freed storage.
receiveUpdatesAfterTeardown ==
    /\ ~crashed /\ TornDown
    /\ rpc \in {"setup", "run"}
    /\ uaf' = TRUE
    /\ crashed' \in BOOLEAN
    /\ UNCHANGED <<seen, stoppedAt, store, m_queue, flags, cpc, rpc, ppc, locals, history>>

processUpdatesAfterTeardown ==
    /\ ~crashed /\ TornDown
    /\ ppc \notin {"unstarted", "done"}
    /\ uaf' = TRUE
    /\ crashed' \in BOOLEAN
    /\ UNCHANGED <<seen, stoppedAt, store, m_queue, flags, cpc, rpc, ppc, locals, history>>

\* ----------------------------------------------------------- reader thread
\* A thread of the program that owns the constructed object reads the public
\* members bids and asks; nothing in the class orders its reads with the
\* steps of processUpdates. What it finds in the two maps at one instant is
\* what a reader finds that makes its calls while processUpdates is not
\* scheduled.
readerInspect ==
    /\ Live /\ cpc = "returned"
    /\ seen' = [looked |-> TRUE, bids |-> bids, asks |-> asks]
    /\ seen' # seen
    /\ UNCHANGED <<stoppedAt, store, m_queue, flags, cpc, rpc, ppc, locals, history, crashed, uaf>>

\* ------------------------------ processUpdates as a function of the payload
\* the payloads on which every step of processUpdates is defined
Defined(msg) ==
    /\ Dispatch(msg) # "undefined"
    /\ msg.type = "snapshot" => {"bids", "asks"} \subseteq msg.has
    /\ \A i \in 1..Len(msg.bids) : ~stodThrows(msg.bids[i][1]) /\ ~stodThrows(msg.bids[i][2])
    /\ \A i \in 1..Len(msg.asks) : ~stodThrows(msg.asks[i][1]) /\ ~stodThrows(msg.asks[i][2])
    /\ \A i \in 1..Len(msg.changes) :
          ~stodThrows(msg.changes[i][2]) /\ ~stodThrows(msg.changes[i][3])

\* the inner loop of the snapshot branch over one list
RECURSIVE insertAll(_, _)
insertAll(map, entries) ==
    IF entries = <<>> THEN map
    ELSE insertAll(insert(map, stod(Head(entries)[1]), stod(Head(entries)[2])),
                   Tail(entries))

\* the body of the changes loop, map->update run to its end
applyChange(book, change) ==
    LET map == IF toBids(change[1]) THEN book.bids ELSE book.asks
        price == stod(change[2])
        new == IF isRemoval(change[3]) THEN erase(map, price)
               ELSE updateFunctor(updateLink(map, price), price, stod(change[3]))
    IN  IF toBids(change[1]) THEN [book EXCEPT !.bids = new]
        ELSE [book EXCEPT !.asks = new]

RECURSIVE applyChanges(_, _)
applyChanges(book, changes) ==
    IF changes = <<>> THEN book
    ELSE applyChanges(applyChange(book, Head(changes)), Tail(changes))

\* one iteration of the loop of processUpdates on a dequeued payload
processUpdate(book, msg) ==
    IF msg.type = "snapshot"
    THEN [bids |-> insertAll(book.bids, msg.bids), asks |-> insertAll(book.asks, msg.asks)]
    ELSE IF msg.type = "l2update" THEN applyChanges(book, msg.changes)
    ELSE book

RECURSIVE processAll(_, _)
processAll(book, msgs) ==
    IF msgs = <<>> THEN book
    ELSE processAll(processUpdate(book, Head(msgs)), Tail(msgs))

EmptyBook == [bids |-> EmptyMap, asks |-> EmptyMap]

\* ------------------------------------------------------------------- spec
Next ==
    \/ StartReceiveThread
    \/ StartProcessThread
    \/ ConstructQueue
    \/ ConstructClient
    \/ InitStopUpdating
    \/ InitBookInitialized
    \/ ConstructorReturn
    \/ ConstructorSpin
    \/ DestructorStopClient
    \/ DestructorSetStop
    \/ DestructorReturn
    \/ receiveUpdatesSetup
    \/ receiveUpdatesRun(OneLevelByCost)
    \/ receiveUpdatesStopped
    \/ receiveUpdatesFailed
    \/ processUpdatesCheckStop
    \/ processUpdatesDequeue
    \/ processUpdatesSnapshotEntry
    \/ processUpdatesSnapshotMissing
    \/ processUpdatesSnapshotDone
    \/ processUpdatesChange
    \/ processUpdatesFunctor
    \/ receiveUpdatesAfterTeardown
    \/ processUpdatesAfterTeardown

Spec == Init /\ [][Next]_vars

\* Scheduling: each of the three threads goes on while it has a step to
\* take. Nothing obliges the program to destroy the object, the feed to
\* send, or the connection to fail; and a thread that reads a stale flag or
\* freed storage may take steps forever that change nothing.
OwnerSteps ==
    \/ StartReceiveThread
    \/ StartProcessThread
    \/ ConstructQueue
    \/ ConstructClient
    \/ InitStopUpdating
    \/ InitBookInitialized
    \/ ConstructorReturn
    \/ DestructorSetStop
    \/ DestructorReturn

TransportSteps ==
    \/ receiveUpdatesSetup
    \/ receiveUpdatesStopped

ApplierSteps ==
    \/ processUpdatesCheckStop
    \/ processUpdatesDequeue
    \/ processUpdatesSnapshotEntry
    \/ processUpdatesSnapshotMissing
    \/ processUpdatesSnapshotDone
    \/ processUpdatesChange
    \/ processUpdatesFunctor

Fairness ==
    /\ WF_vars(OwnerSteps)
    /\ WF_vars(TransportSteps)
    /\ WF_vars(ApplierSteps)

SpecFair == Init /\ [][Next]_vars /\ Fairness

\* The book maintenance alone: construction is past its member
\* initializers and waits for the flag, the transport is connected, and the
\* object is not destroyed.
InitApply ==
    /\ bids = EmptyMap
    /\ asks = EmptyMap
    /\ m_queue = <<>>
    /\ m_stopUpdating = FALSE
    /\ m_bookInitialized = FALSE
    /\ clientStopped = FALSE
    /\ cpc = "wait"
    /\ rpc = "run"
    /\ ppc = "check"
    /\ update = NoUpdate
    /\ li = 1
    /\ j = 1
    /\ received = <<>>
    /\ applied = <<>>
    /\ snapshotsApplied = 0
    /\ crashed = FALSE
    /\ uaf = FALSE
    /\ seen = NotSeen
    /\ stoppedAt = 0

NextApply ==
    \/ ConstructorReturn
    \/ receiveUpdatesRun(FeedByCost)
    \/ processUpdatesCheckStop
    \/ processUpdatesDequeue
    \/ processUpdatesSnapshotEntry
    \/ processUpdatesSnapshotMissing
    \/ processUpdatesSnapshotDone
    \/ processUpdatesChange
    \/ processUpdatesFunctor

SpecApply == InitApply /\ [][NextApply]_vars

\* The constructed book with its readers: an opening snapshot has been
\* applied to the empty maps, the constructor has returned, the feed goes on.
OpeningSnapshots == {m \in FeedByCost[1] : m.type = "snapshot" /\ Defined(m)}

InitRead ==
    \E opening \in OpeningSnapshots :
        /\ bids = processUpdate(EmptyBook, opening).bids
        /\ asks = processUpdate(EmptyBook, opening).asks
        /\ m_queue = <<>>
        /\ m_stopUpdating = FALSE
        /\ m_bookInitialized = TRUE
        /\ clientStopped = FALSE
        /\ cpc = "returned"
        /\ rpc = "run"
        /\ ppc = "check"
        /\ update = NoUpdate
        /\ li = 1
        /\ j = 1
        /\ received = <<opening>>
        /\ applied = <<1>>
        /\ snapshotsApplied = 1
        /\ crashed = FALSE
        /\ uaf = FALSE
        /\ seen = NotSeen
        /\ stoppedAt = 0

\* m_client.run() dispatches one message of the feed that follows the
\* opening snapshot
receiveUpdatesRunOn(feed) ==
    /\ Live /\ rpc = "run"
    /\ ~clientStopped
    /\ TotalCost(Tail(received)) < MaxCost
    /\ \E msg \in feed[MaxCost - TotalCost(Tail(received))] : OnMessage(msg)

NextRead ==
    \/ receiveUpdatesRunOn(FeedByCost)
    \/ processUpdatesCheckStop
    \/ processUpdatesDequeue
    \/ processUpdatesSnapshotEntry
    \/ processUpdatesSnapshotMissing
    \/ processUpdatesSnapshotDone
    \/ processUpdatesChange
    \/ processUpdatesFunctor
    \/ readerInspect

SpecRead == InitRead /\ [][NextRead]_vars

\* The constructed book and its destruction while the feed is live.
NextStop ==
    \/ receiveUpdatesRunOn(OneLevelByCost)
    \/ receiveUpdatesStopped
    \/ processUpdatesCheckStop
    \/ processUpdatesDequeue
    \/ processUpdatesSnapshotEntry
    \/ processUpdatesSnapshotMissing
    \/ processUpdatesSnapshotDone
    \/ processUpdatesChange
    \/ processUpdatesFunctor
    \/ DestructorStopClient
    \/ DestructorSetStop
    \/ DestructorReturn
    \/ receiveUpdatesAfterTeardown
    \/ processUpdatesAfterTeardown

\* the first snapshot found the book of the product empty
InitStop == InitRead /\ bids = EmptyMap /\ asks = EmptyMap

SpecStop == InitStop /\ [][NextStop]_vars

\* The changes loop as a function of the book it starts from and the
\* l2update it is given: the constructed book after an opening snapshot,
\* processUpdates has just dequeued the l2update that followed it.
InitChanges ==
    \E opening \in OpeningSnapshots :
        \E msg \in {m \in L2Updates(MaxCost) : m.changes # <<>>} :
            /\ bids = processUpdate(EmptyBook, opening).bids
            /\ asks = processUpdate(EmptyBook, opening).asks
            /\ m_queue = <<>>
            /\ m_stopUpdating = FALSE
            /\ m_bookInitialized = TRUE
            /\ clientStopped = FALSE
            /\ cpc = "returned"
            /\ rpc = "run"
            /\ ppc = "l2update"
            /\ update = msg
            /\ li = 1
            /\ j = 1
            /\ received = <<opening, msg>>
            /\ applied = <<1, 2>>
            /\ snapshotsApplied = 1
            /\ crashed = FALSE
            /\ uaf = FALSE
            /\ seen = NotSeen
            /\ stoppedAt = 0

NextChanges ==
    \/ processUpdatesChange
    \/ processUpdatesFunctor

SpecChanges == InitChanges /\ [][NextChanges]_vars

\* ----------------------------------------------------------------- claims
Last(q) == q[Len(q)]
Applying == ppc \in {"snapshot", "l2update", "functor"}
Idle == ppc \in {"check", "dequeue", "done"}

\* ---- reference: a plain ordered map folded with the documented rules
RefUpsert(map, price, size) ==
    [k \in DOMAIN map \cup {price} |-> IF k = price THEN size ELSE map[k]]
RefRemove(map, price) == [k \in DOMAIN map \ {price} |-> map[k]]

RECURSIVE RefEntries(_, _)
RefEntries(map, entries) ==
    IF entries = <<>> THEN map
    ELSE RefEntries(RefUpsert(map, stod(Head(entries)[1]), stod(Head(entries)[2])),
                    Tail(entries))

RECURSIVE RefChanges(_, _)
RefChanges(book, changes) ==
    IF changes = <<>> THEN book
    ELSE LET c == Head(changes)
             side == IF c[1] = "buy" THEN "bids" ELSE "asks"
             new == IF stod(c[3]) = 0 THEN RefRemove(book[side], stod(c[2]))
                    ELSE RefUpsert(book[side], stod(c[2]), stod(c[3]))
         IN  RefChanges([book EXCEPT ![side] = new], Tail(changes))

RefMessage(book, msg) ==
    IF msg.type = "snapshot"
    THEN [bids |-> RefEntries(book.bids, msg.bids), asks |-> RefEntries(book.asks, msg.asks)]
    ELSE RefChanges(book, msg.changes)

RECURSIVE RefFold(_, _)
RefFold(book, msgs) ==
    IF msgs = <<>> THEN book ELSE RefFold(RefMessage(book, Head(msgs)), Tail(msgs))

\* a snapshot list as the exchange sends it: each price once, no empty level
ValidList(entries) ==
    \A i \in 1..Len(entries) :
        /\ stod(entries[i][2]) # 0
        /\ \A k \in 1..Len(entries) : stod(entries[k][1]) = stod(entries[i][1]) => k = i

ValidMsg(msg) ==
    /\ WellFormed(msg)
    /\ msg.type \in {"snapshot", "l2update"}
    /\ ValidList(msg.bids) /\ ValidList(msg.asks)
    /\ \A i \in 1..Len(msg.changes) : msg.changes[i][1] \in {"buy", "sell"}

\* a feed as the exchange sends it: a snapshot, then snapshots and l2updates
ValidFeed(msgs) ==
    /\ msgs # <<>>
    /\ msgs[1].type = "snapshot"
    /\ \A i \in 1..Len(msgs) : ValidMsg(msgs[i])

AllProcessed == Len(applied) = Len(received) /\ Idle

\* C1: once processUpdates has processed every payload of a valid feed, bids
\* and asks equal the fold of that feed over a reference map (snapshot entry:
\* insert-or-overwrite; change: remove on 0, else insert-or-overwrite), under
\* every interleaving of the three threads.
C1_StoreEqualsReferenceFold ==
    (ValidFeed(received) /\ AllProcessed /\ ~crashed) =>
        LET ref == RefFold([bids |-> EmptyMap, asks |-> EmptyMap], received)
        IN  bids = ref.bids /\ asks = ref.asks

\* ---- l2update
Named(buyOrSell, b, a) == IF buyOrSell = "buy" THEN b ELSE a

\* a step that ends one iteration of the changes loop
ChangeEnds ==
    /\ ppc \in {"l2update", "functor"}
    /\ ppc' # "functor"
    /\ ppc' # ppc \/ j' # j
    /\ ~crashed'

\* C2: a change (side, price, newQuantity) of an l2update, taken in its order
\* within the message, removes price from the named Side when newQuantity is
\* 0 (the Side is unchanged when price was absent) and otherwise leaves the
\* named Side mapping price to newQuantity, created or overwritten.
C2_L2UpdateChange ==
    [][ChangeEnds /\ update.changes[j][1] \in {"buy", "sell"} =>
        LET c == update.changes[j]
            p == stod(c[2])
            q == stod(c[3])
            old == Named(c[1], bids, asks)
            new == Named(c[1], bids', asks')
        IN  /\ IF q = 0
               THEN p \notin DOMAIN new /\ (p \notin DOMAIN old => new = old)
               ELSE p \in DOMAIN new /\ new[p] = q
            /\ (ppc' = "l2update" => j' = j + 1 /\ update' = update)
            /\ (ppc' # "l2update" => j = Len(update.changes))]_vars

\* the first of two changes overwrote or created a bid, the second is next
C2_Witness ==
    /\ ppc = "l2update" /\ j = 2
    /\ update.changes[1][1] = "buy"
    /\ stod(update.changes[1][3]) # 0
    /\ stod(update.changes[1][2]) \in DOMAIN bids
    /\ bids[stod(update.changes[1][2])] = stod(update.changes[1][3])

\* ---- snapshot
ListedPrices(entries) == {stod(entries[i][1]) : i \in 1..Len(entries)}

LastSize(entries, price) ==
    LET at == {i \in 1..Len(entries) : stod(entries[i][1]) = price}
        last == CHOOSE i \in at : \A k \in at : k <= i
    IN  stod(entries[last][2])

LastWins(map, entries) ==
    \A p \in ListedPrices(entries) : p \in DOMAIN map /\ map[p] = LastSize(entries, p)

\* C3: when both loops of a snapshot are over, every listed price maps to the
\* quantity of its last occurrence in the snapshot, also when the price was
\* in the Side before or is listed twice.
C3_SnapshotLastOccurrenceWins ==
    (ppc = "snapshot" /\ li = 3) =>
        LastWins(bids, update.bids) /\ LastWins(asks, update.asks)

\* ---- teardown
\* C4: the destructor returns (and the members are destroyed) only after
\* both worker threads have terminated.
C4_TeardownAfterWorkersEnd ==
    (TornDown /\ ~crashed) => (rpc = "done" /\ ppc = "done")

\* ---- construction
Range(q) == {q[i] : i \in 1..Len(q)}

IsSnapshot(msg) == Dispatch(msg) = "snapshot"

FirstSnapshotLoaded ==
    \E i \in 1..Len(received) :
        /\ IsSnapshot(received[i])
        /\ \A k \in 1..(i - 1) : ~IsSnapshot(received[k])
        /\ i \in Range(applied)
        /\ ~(Last(applied) = i /\ ppc = "snapshot")

Loaded ==
    /\ ListedPrices(update.bids) \subseteq DOMAIN bids
    /\ ListedPrices(update.asks) \subseteq DOMAIN asks

\* C5: the constructor returns only when m_bookInitialized is true, and the
\* flag is set by processUpdates only after the insert of every entry of the
\* snapshot: wherever the constructor has returned, the first snapshot has
\* been loaded completely.
C5_ReturnsAfterFirstSnapshotLoaded ==
    /\ [](Constructed => (m_bookInitialized /\ FirstSnapshotLoaded))
    /\ [][(~m_bookInitialized /\ m_bookInitialized') =>
            (ppc = "snapshot" /\ li = 3 /\ Loaded)]_vars

C5_Witness ==
    /\ cpc = "returned"
    /\ snapshotsApplied = 1
    /\ IsSnapshot(received[1])
    /\ received[1].bids # <<>>
    /\ ListedPrices(received[1].bids) \subseteq DOMAIN bids

\* ---- invariants of the store and the flag
\* C6: a price is in a Side only with a nonzero quantity, whatever the
\* snapshots and l2updates were (stated between two map operations, outside
\* the window in which map->update has linked a key and not yet set it).
C6_NoZeroQuantityStored ==
    ppc # "functor" =>
        /\ \A p \in DOMAIN bids : bids[p] # 0
        /\ \A p \in DOMAIN asks : asks[p] # 0

\* C7: m_bookInitialized is false until a snapshot has been applied and
\* never goes from true back to false.
C7_InitializedSetOnceNeverReverts ==
    /\ [](snapshotsApplied = 0 => ~m_bookInitialized)
    /\ [][m_bookInitialized => m_bookInitialized']_vars

\* ---- queue
\* C8: payloads are dequeued in the order the handler received them, each
\* once, and the payload being applied is the last one dequeued.
C8_AppliedInReceiptOrder ==
    /\ \A i \in 1..Len(applied) : applied[i] = i
    /\ Len(applied) + Len(m_queue) = Len(received)
    /\ \A i \in 1..Len(m_queue) :
          /\ m_queue[i].seq = Len(applied) + i
          /\ m_queue[i].msg = received[Len(applied) + i]
    /\ Applying => update = received[Last(applied)]

C8_Witness ==
    /\ Len(applied) = 2
    /\ received[1] # received[2]
    /\ Applying

\* C9: a snapshot applied when the book is already initialized leaves every
\* price it does not list in the Side with its quantity.
Kept(old, new, entries) ==
    \A p \in DOMAIN old \ ListedPrices(entries) : p \in DOMAIN new /\ new[p] = old[p]

C9_SecondSnapshotMerges ==
    [][(ppc = "snapshot" /\ m_bookInitialized) =>
        (Kept(bids, bids', update.bids) /\ Kept(asks, asks', update.asks))]_vars

C9_Witness ==
    /\ snapshotsApplied = 2
    /\ received[2].bids # <<>>
    /\ ListedPrices(received[2].bids) \subseteq DOMAIN bids
    /\ DOMAIN bids \ ListedPrices(received[2].bids) # {}

\* C10: a malformed payload does not take processUpdates down (stated for
\* the payloads that decode and carry a field that is no decimal number).
NotANumber(msg) ==
    \E i \in 1..Len(msg.changes) : stodThrows(msg.changes[i][2]) \/ stodThrows(msg.changes[i][3])

C10_MalformedPayloadSkipped ==
    (applied # <<>> /\ NotANumber(received[Last(applied)])) => ~crashed

\* ---- readers
\* a snapshot entry or an l2update change of a received payload gives the
\* side the pair (price, size)
WrittenBy(msg, side, price, size) ==
    \/ \E i \in 1..Len(List(msg, IF side = "bids" THEN 1 ELSE 2)) :
          LET entry == List(msg, IF side = "bids" THEN 1 ELSE 2)[i]
          IN  /\ msg.type = "snapshot"
              /\ ~stodThrows(entry[1]) /\ ~stodThrows(entry[2])
              /\ stod(entry[1]) = price /\ stod(entry[2]) = size
    \/ \E i \in 1..Len(msg.changes) :
          LET change == msg.changes[i]
          IN  /\ msg.type = "l2update"
              /\ toBids(change[1]) <=> side = "bids"
              /\ ~stodThrows(change[2]) /\ ~stodThrows(change[3])
              /\ stod(change[2]) = price /\ stod(change[3]) = size /\ size # 0

Written(side, price, size) ==
    \E i \in 1..Len(received) : WrittenBy(received[i], side, price, size)

OnlyWrittenPairs(view) ==
    /\ \A p \in DOMAIN view.bids : Written("bids", p, view.bids[p])
    /\ \A p \in DOMAIN view.asks : Written("asks", p, view.asks[p])

\* C11: every (price, quantity) pair a reader thread finds in bids or asks
\* while processUpdates is running is a pair that a snapshot entry or an
\* l2update change gave that price in that side; no placeholder.
C11_ReaderSeesOnlyWrittenPairs ==
    seen.looked => OnlyWrittenPairs(seen)

\* the book after each received payload, from the empty book
Boundaries ==
    {processAll(EmptyBook, SubSeq(received, 1, k)) : k \in 0..Len(received)}

\* C12: what a reader thread finds in bids and asks after construction is
\* the book between two payloads, never the book with a part of the changes
\* of an l2update or a part of the entries of a later snapshot applied
\* (stated for what the reader finds outside the window of C11).
C12_ReaderSeesWholeUpdates ==
    (seen.looked /\ OnlyWrittenPairs(seen) /\ \A i \in 1..Len(received) : Defined(received[i]))
        => [bids |-> seen.bids, asks |-> seen.asks] \in Boundaries

\* ---- shutdown
ShutdownIssued == cpc \in {"dtor_join", "destroyed"}
WorkersEnded == rpc = "done" /\ ppc = "done"

OtherType(msg) == Defined(msg) /\ msg.type \notin {"snapshot", "l2update"}

\* processUpdates takes the payload at the head of the queue
Dequeues == ppc = "dequeue" /\ m_queue # <<>> /\ applied' # applied

\* C14: a well-formed payload whose type is neither snapshot nor l2update
\* is dequeued without error, leaves bids, asks and m_bookInitialized as
\* they were, and processUpdates goes on to its next iteration with the
\* rest of the queue.
C14_OtherTypeIgnored ==
    [][(Dequeues /\ OtherType(Head(m_queue).msg)) =>
        /\ bids' = bids /\ asks' = asks
        /\ m_bookInitialized' = m_bookInitialized
        /\ ~crashed'
        /\ ppc' = "check"
        /\ m_queue' = Tail(m_queue)]_vars

\* a heartbeat was dequeued, and the payload after it is being applied
C14_Witness ==
    /\ Len(applied) = 2
    /\ OtherType(received[1])
    /\ ppc = "l2update"
    /\ ~crashed

\* ---- sides
\* C15: a change of an l2update modifies only the side it names: "buy" only
\* bids, "sell" only asks, and a change with any other side value neither.
C15_ChangeModifiesNamedSideOnly ==
    [][(ppc \in {"l2update", "functor"} /\ ~crashed') =>
        LET buyOrSell == update.changes[j][1]
        IN  /\ buyOrSell = "buy" => asks' = asks
            /\ buyOrSell = "sell" => bids' = bids
            /\ buyOrSell \notin {"buy", "sell"} => (bids' = bids /\ asks' = asks)]_vars

\* ---- order of changes
\* the payload processUpdates dequeued last
LastApplied == received[Last(applied)]

\* an l2update of two changes to one price of one side
TwoChangesOnePrice(msg) ==
    /\ msg.type = "l2update" /\ Defined(msg)
    /\ Len(msg.changes) = 2
    /\ msg.changes[1][1] = msg.changes[2][1]
    /\ msg.changes[1][1] \in {"buy", "sell"}
    /\ stod(msg.changes[1][2]) = stod(msg.changes[2][2])

\* C16: the two changes remove(p) and upsert(p, q), q nonzero, applied in
\* the two orders end differently whatever the side held before: remove
\* then upsert leaves p mapped to q, upsert then remove leaves p absent.
C16_ChangeOrderMatters ==
    (applied # <<>> /\ Idle /\ ~crashed /\ TwoChangesOnePrice(LastApplied)) =>
        LET c1 == LastApplied.changes[1]
            c2 == LastApplied.changes[2]
            p == stod(c1[2])
            side == Named(c1[1], bids, asks)
        IN  /\ (stod(c1[3]) = 0 /\ stod(c2[3]) # 0) =>
                  (p \in DOMAIN side /\ side[p] = stod(c2[3]))
            /\ (stod(c1[3]) # 0 /\ stod(c2[3]) = 0) => p \notin DOMAIN side

\* upsert then remove has ended on a side that held the price before
C16_Witness ==
    /\ applied = <<1, 2>> /\ Idle /\ ~crashed
    /\ TwoChangesOnePrice(LastApplied)
    /\ stod(LastApplied.changes[1][3]) # 0
    /\ stod(LastApplied.changes[2][3]) = 0
    /\ LastApplied.changes[1][1] = "sell"
    /\ received[1].asks # <<>>
    /\ stod(received[1].asks[1][1]) = stod(LastApplied.changes[1][2])
    /\ stod(LastApplied.changes[1][2]) \notin DOMAIN asks

\* ---- stop signal
\* C17: processUpdates reads m_stopUpdating once per iteration, before
\* the dequeue. Once the flag is set it dequeues at most one more payload
\* (it had passed the test already), its next test makes it return, and
\* what is left in the queue is never dequeued.
C17_StopPolledOncePerIteration ==
    /\ [](m_stopUpdating => Len(applied) <= stoppedAt + 1)
    /\ [][(ppc' = "dequeue" /\ ppc # "dequeue") => ppc = "check"]_vars
    /\ [][applied' # applied => (ppc = "dequeue" /\ (ppc' # "dequeue" \/ crashed'))]_vars
    /\ [][(m_stopUpdating /\ ppc = "check" /\ ppc' # ppc) => ppc' = "done"]_vars
    /\ [][ppc = "done" => (ppc' = "done" /\ applied' = applied /\ m_queue' = m_queue)]_vars

\* the flag was set with two payloads queued and processUpdates past its
\* test: it took one of them and returned, the other stays in the queue
C17_Witness ==
    /\ m_stopUpdating /\ ppc = "done"
    /\ Len(applied) = stoppedAt + 1
    /\ m_queue # <<>>
    /\ ~uaf

\* ---- the wait of the constructor
\* C18: as long as no snapshot has been applied the constructor has not
\* returned, whatever else happened (no snapshot sent, receiveUpdates
\* ended), and processUpdates has not returned either (stated for the runs
\* the process survives).
C18_NoSnapshotNoReturn ==
    (snapshotsApplied = 0 /\ ~crashed) => (~Constructed /\ ppc # "done")

\* ---- construction order
\* C19: neither worker thread touches m_queue, m_client, m_stopUpdating or
\* m_bookInitialized before the constructing thread has constructed the
\* member and given it its initial value.
C19_NoUseBeforeConstruction ==
    /\ [][(rpc = "setup" /\ (rpc' # rpc \/ crashed')) => ClientConstructed]_vars
    /\ [][(ppc = "check" /\ ppc' # ppc) => StopInitialized]_vars
    /\ [][(ppc = "dequeue" /\ (ppc' # ppc \/ crashed')) => QueueConstructed]_vars
    /\ [][(ppc = "snapshot" /\ ppc' = "check") => BookInitializedInitialized]_vars

\* ---- l2update before the first snapshot
\* the payloads processUpdates has dequeued, in their order
AppliedPayloads == [i \in 1..Len(applied) |-> received[applied[i]]]

\* C20: processUpdates applies an l2update dequeued before any snapshot by
\* the same rule as after one (remove on a zero size, else insert or
\* overwrite, on the named side) and leaves m_bookInitialized false; the
\* flag is set only at the end of a snapshot.
C20_DeltasNotGatedOnInitialization ==
    /\ []((snapshotsApplied = 0 /\ Idle /\ ~crashed
             /\ \A i \in 1..Len(applied) : Defined(AppliedPayloads[i])
                                             /\ AppliedPayloads[i].type # "snapshot")
           => /\ bids = processAll(EmptyBook, AppliedPayloads).bids
              /\ asks = processAll(EmptyBook, AppliedPayloads).asks
              /\ ~m_bookInitialized)
    /\ [][(~m_bookInitialized /\ m_bookInitialized') => ppc = "snapshot"]_vars

\* before any snapshot one l2update has put a bid into the book and the
\* next one has removed it
C20_Witness ==
    /\ snapshotsApplied = 0 /\ ~m_bookInitialized /\ ~crashed
    /\ Len(applied) = 2 /\ Idle
    /\ received[1].type = "l2update" /\ received[2].type = "l2update"
    /\ Defined(received[1]) /\ Defined(received[2])
    /\ processUpdate(EmptyBook, received[1]).bids # EmptyMap
    /\ bids = EmptyMap

====
